---- MODULE Spec2Model ----
(***************************************************************************)
(* Model of MetadataService (services/MetadataService.ts): the tag         *)
(* normaliser cleanMetadata, the coordinate resolver                       *)
(* processLocationCoordinates with convertDMSToDecimal / safeDivide, and   *)
(* parseMetadata.                                                          *)
(*                                                                         *)
(* JavaScript values are tagged records (field t is the value's kind).     *)
(* Numbers are exact fractions n/d (d > 0, lowest terms) or NaN; this      *)
(* abstracts IEEE-754 doubles by the rationals they approximate.  Strings  *)
(* are sequences of one-character strings so that trim, toUpperCase,       *)
(* startsWith, toFixed and parseFloat are computed character by character. *)
(***************************************************************************)
EXTENDS Integers, Sequences, FiniteSets, TLC

VARIABLES pc, call, ret, obj, app, live, created, pending, unhandled

vars == <<pc, call, ret, obj, app, live, created, pending, unhandled>>

\* the state of a call of MetadataService, and the state of App with its environment
serviceVars == <<pc, call, ret, obj>>
appVars == <<app, live, created, pending, unhandled>>

(***************************************************************************)
(* Bounds of the explored inputs.                                          *)
(***************************************************************************)
MaxNum == 2       \* small numerators range over -1..MaxNum
MaxDen == 2       \* denominators range over 0..MaxDen
MaxRefLen == 2    \* hemisphere reference strings over RefAlphabet, up to this length

(***************************************************************************)
(* JavaScript values                                                       *)
(***************************************************************************)
Undef == [t |-> "undefined"]
Null == [t |-> "null"]
Bool(b) == [t |-> "boolean", b |-> b]
Str(s) == [t |-> "string", s |-> s]
NaN == [t |-> "number", nan |-> TRUE, n |-> 0, d |-> 1]
Arr(e) == [t |-> "array", e |-> e]
Obj(f) == [t |-> "object", f |-> f]
\* a typed array (Uint8Array) over the given bytes
View(e) == [t |-> "view", e |-> e]
\* an exception leaving the function instead of a value
Threw == [t |-> "throw"]

IsThrow(v) == v.t = "throw"

RECURSIVE GCD(_, _)
GCD(a, b) == IF b = 0 THEN a ELSE GCD(b, a % b)

AbsInt(i) == IF i < 0 THEN -i ELSE i

\* the number n/d (d # 0), in lowest terms with a positive denominator
Frac(n, d) ==
  LET g == GCD(AbsInt(n), AbsInt(d))
      s == IF d < 0 THEN -1 ELSE 1
  IN [t |-> "number", nan |-> FALSE, n |-> s * (n \div g), d |-> AbsInt(d) \div g]

Whole(i) == Frac(i, 1)

\* `typeof v`
TypeOf(v) ==
  CASE v.t \in {"null", "array", "object", "view"} -> "object"
    [] v.t = "url" -> "string"
    [] OTHER -> v.t

\* ToBoolean: the falsy values are undefined, null, false, 0, NaN and ''
Truthy(v) ==
  CASE v.t \in {"undefined", "null"} -> FALSE
    [] v.t = "boolean" -> v.b
    [] v.t = "number" -> ~v.nan /\ v.n # 0
    [] v.t = "string" -> Len(v.s) > 0
    [] OTHER -> TRUE

\* `a || b`
OrElse(a, b) == IF Truthy(a) THEN a ELSE b

\* `name in v` for an object v (arrays carry neither description nor value)
HasField(v, name) == v.t = "object" /\ name \in DOMAIN v.f

\* `v.name` on a value that is neither null nor undefined
Get(v, name) == IF HasField(v, name) THEN v.f[name] ELSE Undef

\* `v?.name`
OptGet(v, name) == IF v.t \in {"undefined", "null"} THEN Undef ELSE Get(v, name)

\* `rawData.key` on a dictionary (a function from its keys to values)
Lookup(rawData, key) == IF key \in DOMAIN rawData THEN rawData[key] ELSE Undef

(***************************************************************************)
(* Number arithmetic                                                       *)
(***************************************************************************)
\* ToNumber, for the operands the explored fractions carry
ToNumber(v) ==
  CASE v.t = "number" -> v
    [] v.t = "undefined" -> NaN

Lcm(a, b) == (a \div GCD(a, b)) * b

\* x + y
Add(x, y) ==
  IF x.nan \/ y.nan THEN NaN
  ELSE LET l == Lcm(x.d, y.d)
       IN Frac(x.n * (l \div x.d) + y.n * (l \div y.d), l)

\* x / y for operands y that are not zero
Div(x, y) ==
  IF x.nan \/ y.nan THEN NaN
  ELSE Frac(x.n * y.d, x.d * y.n)

\* -x
Neg(x) == IF x.nan THEN NaN ELSE Frac(-x.n, x.d)

\* Math.abs(x)
MathAbs(x) == IF x.nan THEN NaN ELSE Frac(AbsInt(x.n), x.d)

\* x > 0, x < k, x >= 0 (every comparison with NaN is false)
GtZero(x) == ~x.nan /\ x.n > 0
LtInt(x, k) == ~x.nan /\ x.n < k * x.d
GeZero(x) == ~x.nan /\ x.n >= 0

(***************************************************************************)
(* Strings                                                                 *)
(***************************************************************************)
Digits == <<"0", "1", "2", "3", "4", "5", "6", "7", "8", "9">>
LowerCase == <<"a", "b", "c", "d", "e", "f", "g", "h", "i", "j", "k", "l", "m",
               "n", "o", "p", "q", "r", "s", "t", "u", "v", "w", "x", "y", "z">>
UpperCase == <<"A", "B", "C", "D", "E", "F", "G", "H", "I", "J", "K", "L", "M",
               "N", "O", "P", "Q", "R", "S", "T", "U", "V", "W", "X", "Y", "Z">>
WhiteSpace == {" ", "\t", "\n"}

IsDigit(c) == \E i \in 1..10 : Digits[i] = c
DigitVal(c) == (CHOOSE i \in 1..10 : Digits[i] = c) - 1

\* String.prototype.toUpperCase, one character
UpperChar(c) ==
  IF \E i \in 1..26 : LowerCase[i] = c
  THEN UpperCase[CHOOSE i \in 1..26 : LowerCase[i] = c]
  ELSE c

\* String.prototype.toUpperCase
toUpperCase(s) == [i \in 1..Len(s) |-> UpperChar(s[i])]

RECURSIVE TrimStart(_)
TrimStart(s) ==
  IF Len(s) > 0 /\ s[1] \in WhiteSpace THEN TrimStart(Tail(s)) ELSE s

RECURSIVE TrimEnd(_)
TrimEnd(s) ==
  IF Len(s) > 0 /\ s[Len(s)] \in WhiteSpace
  THEN TrimEnd(SubSeq(s, 1, Len(s) - 1))
  ELSE s

\* String.prototype.trim
trim(s) == TrimEnd(TrimStart(s))

\* String.prototype.startsWith
startsWith(s, prefix) ==
  Len(s) >= Len(prefix) /\ SubSeq(s, 1, Len(prefix)) = prefix

\* decimal digits of a natural number
RECURSIVE NatToString(_)
NatToString(i) ==
  IF i < 10 THEN <<Digits[i + 1]>>
  ELSE NatToString(i \div 10) \o <<Digits[(i % 10) + 1]>>

\* Number.prototype.toString for NaN and for integral values
NumberToString(x) ==
  CASE x.nan -> <<"N", "a", "N">>
    [] ~x.nan /\ x.d = 1 /\ x.n >= 0 -> NatToString(x.n)
    [] ~x.nan /\ x.d = 1 /\ x.n < 0 -> <<"-">> \o NatToString(-x.n)

ObjectObject ==
  <<"[", "o", "b", "j", "e", "c", "t", " ", "O", "b", "j", "e", "c", "t", "]">>

\* value.toString(): strings as they are, numbers and booleans printed,
\* arrays and typed arrays joined with ",", plain objects "[object Object]"
RECURSIVE toString(_)
RECURSIVE Join(_)
Join(e) ==
  IF Len(e) = 0 THEN <<>>
  ELSE LET h == IF e[1].t \in {"undefined", "null"} THEN <<>> ELSE toString(e[1])
       IN IF Len(e) = 1 THEN h ELSE h \o <<",">> \o Join(Tail(e))
toString(v) ==
  CASE v.t = "string" -> v.s
    [] v.t = "number" -> NumberToString(v)
    [] v.t = "boolean" -> IF v.b THEN <<"t", "r", "u", "e">> ELSE <<"f", "a", "l", "s", "e">>
    [] v.t \in {"array", "view"} -> Join(v.e)
    [] v.t = "object" -> ObjectObject

(***************************************************************************)
(* Number.prototype.toFixed(6) and parseFloat                              *)
(***************************************************************************)
FractionDigits == 6

RECURSIVE Pow10(_)
Pow10(k) == IF k = 0 THEN 1 ELSE 10 * Pow10(k - 1)

\* k digits of the long division r/d (r < d), as <<digits read as a number, remainder>>
RECURSIVE LongDiv(_, _, _)
LongDiv(r, d, k) ==
  IF k = 0 THEN <<0, r>>
  ELSE LET rest == LongDiv((r * 10) % d, d, k - 1)
       IN <<((r * 10) \div d) * Pow10(k - 1) + rest[1], rest[2]>>

\* the integer nearest to x * 10^6 for x >= 0, the larger one on a tie
Scaled(x) ==
  LET q == LongDiv(x.n % x.d, x.d, FractionDigits)
      up == IF 2 * q[2] >= x.d THEN 1 ELSE 0
  IN (x.n \div x.d) * Pow10(FractionDigits) + q[1] + up

\* k decimal digits of i, zero padded
RECURSIVE Padded(_, _)
Padded(i, k) ==
  IF k = 0 THEN <<>> ELSE Padded(i \div 10, k - 1) \o <<Digits[(i % 10) + 1]>>

\* x.toFixed(6): "NaN", or an optional "-" (whenever x < 0, also when the
\* digits round to zero), the integer digits, "." and six fraction digits
toFixed(x) ==
  IF x.nan THEN <<"N", "a", "N">>
  ELSE LET m == Scaled(MathAbs(x))
           body == NatToString(m \div Pow10(FractionDigits)) \o <<".">>
                     \o Padded(m % Pow10(FractionDigits), FractionDigits)
       IN IF x.n < 0 THEN <<"-">> \o body ELSE body

\* the digits at the front of s, as <<value, count>>
RECURSIVE ReadDigits(_, _, _)
ReadDigits(s, acc, cnt) ==
  IF Len(s) > 0 /\ IsDigit(s[1])
  THEN ReadDigits(Tail(s), acc * 10 + DigitVal(s[1]), cnt + 1)
  ELSE <<acc, cnt>>

\* parseFloat(s): the longest decimal literal [-]digits[.digits] at the
\* front of s, NaN when there is none (-0 is read as 0)
parseFloat(s) ==
  LET neg == Len(s) > 0 /\ s[1] = "-"
      u == IF neg THEN Tail(s) ELSE s
      ip == ReadDigits(u, 0, 0)
      afterInt == SubSeq(u, ip[2] + 1, Len(u))
      hasDot == Len(afterInt) > 0 /\ afterInt[1] = "."
      fp == IF hasDot THEN ReadDigits(Tail(afterInt), 0, 0) ELSE <<0, 0>>
      mag == Frac(ip[1] * Pow10(fp[2]) + fp[1], Pow10(fp[2]))
  IN IF ip[2] = 0 /\ fp[2] = 0 THEN NaN
     ELSE IF neg THEN Neg(mag) ELSE mag

(***************************************************************************)
(* MetadataService                                                         *)
(***************************************************************************)
\* ArrayBuffer.isView(v)
IsView(v) == v.t = "view"

\* Array.isArray(v)
IsArray(v) == v.t = "array"

\* whether `[num, denom] = v` can iterate v; otherwise it raises a TypeError
Iterable(v) == v.t \in {"array", "view", "string"}

\* the i-th value the destructuring reads from v, undefined past its end
Elem(v, i) ==
  IF v.t = "string"
  THEN IF i <= Len(v.s) THEN Str(<<v.s[i]>>) ELSE Undef
  ELSE IF i <= Len(v.e) THEN v.e[i] ELSE Undef

\* `denom === 0`
IsZero(v) == v.t = "number" /\ ~v.nan /\ v.n = 0

\* safeDivide returning the numerator, not 0, for a zero denominator
safeDivide_ZeroGivesNumerator(pair) ==
  IF ~Iterable(pair) THEN Threw
  ELSE LET num == Elem(pair, 1)
           denom == Elem(pair, 2)
       IN IF IsZero(denom) THEN ToNumber(num)
          ELSE Div(ToNumber(num), ToNumber(denom))

\* ([num, denom]) => denom === 0 ? 0 : num / denom
safeDivide(pair) ==
  IF ~Iterable(pair) THEN Threw
  ELSE LET num == Elem(pair, 1)
           denom == Elem(pair, 2)
       IN IF IsZero(denom) THEN Whole(0)
          ELSE Div(ToNumber(num), ToNumber(denom))

\* convertDMSToDecimal dividing the seconds by 60 as it does the minutes
convertDMSToDecimal_SecondsBy60(dmsArray) ==
  IF ~IsArray(dmsArray) \/ Len(dmsArray.e) # 3 THEN Whole(0)
  ELSE LET degrees == safeDivide(dmsArray.e[1])
           minutes == safeDivide(dmsArray.e[2])
           seconds == safeDivide(dmsArray.e[3])
       IN IF IsThrow(degrees) \/ IsThrow(minutes) \/ IsThrow(seconds) THEN Threw
          ELSE Add(Add(degrees, Div(minutes, Whole(60))), Div(seconds, Whole(60)))

\* convertDMSToDecimal(dmsArray)
convertDMSToDecimal(dmsArray) ==
  IF ~IsArray(dmsArray) \/ Len(dmsArray.e) # 3 THEN Whole(0)
  ELSE LET degrees == safeDivide(dmsArray.e[1])
           minutes == safeDivide(dmsArray.e[2])
           seconds == safeDivide(dmsArray.e[3])
       IN IF IsThrow(degrees) \/ IsThrow(minutes) \/ IsThrow(seconds) THEN Threw
          ELSE Add(Add(degrees, Div(minutes, Whole(60))), Div(seconds, Whole(3600)))

\* rawData.<key>?.description || rawData.<key>?.value || ''
RefRaw(rawData, key) ==
  LET ref == Lookup(rawData, key)
  IN OrElse(OrElse(OptGet(ref, "description"), OptGet(ref, "value")), Str(<<>>))

\* the normalization without trim()
NormalizeRef_NoTrim(refRaw) == toUpperCase(toString(refRaw))

\* refRaw.toString().trim().toUpperCase()
NormalizeRef(refRaw) == toUpperCase(trim(toString(refRaw)))

\* the latitude correction with the longitude's empty-reference fallback
CorrectLatitude_WithFallback(latitude, normalizedLatRef) ==
  IF normalizedLatRef = <<"S">> THEN Neg(MathAbs(latitude))
  ELSE IF Len(normalizedLatRef) = 0 /\ GtZero(latitude) /\ LtInt(latitude, 180)
       THEN Neg(MathAbs(latitude))
       ELSE latitude

\* if (normalizedLatRef === 'S') latitude = -Math.abs(latitude)
CorrectLatitude(latitude, normalizedLatRef) ==
  IF normalizedLatRef = <<"S">> THEN Neg(MathAbs(latitude)) ELSE latitude

\* the longitude correction negating without Math.abs
CorrectLongitude_NoAbs(longitude, normalizedLonRef) ==
  IF startsWith(normalizedLonRef, <<"W">>) THEN Neg(longitude)
  ELSE IF Len(normalizedLonRef) = 0 /\ GtZero(longitude) /\ LtInt(longitude, 180)
       THEN Neg(MathAbs(longitude))
       ELSE longitude

\* the longitude correction whose fallback ignores the reference
CorrectLongitude_AnyReference(longitude, normalizedLonRef) ==
  IF startsWith(normalizedLonRef, <<"W">>) THEN Neg(MathAbs(longitude))
  ELSE IF GtZero(longitude) /\ LtInt(longitude, 180)
       THEN Neg(MathAbs(longitude))
       ELSE longitude

\* the longitude correction whose fallback window includes 180
CorrectLongitude_UpTo180(longitude, normalizedLonRef) ==
  IF startsWith(normalizedLonRef, <<"W">>) THEN Neg(MathAbs(longitude))
  ELSE IF Len(normalizedLonRef) = 0 /\ GtZero(longitude) /\ LtInt(longitude, 181)
       THEN Neg(MathAbs(longitude))
       ELSE longitude

\* if (normalizedLonRef.startsWith('W')) longitude = -Math.abs(longitude)
\* else if (!normalizedLonRef && longitude > 0 && longitude < 180) the same
CorrectLongitude(longitude, normalizedLonRef) ==
  IF startsWith(normalizedLonRef, <<"W">>) THEN Neg(MathAbs(longitude))
  ELSE IF Len(normalizedLonRef) = 0 /\ GtZero(longitude) /\ LtInt(longitude, 180)
       THEN Neg(MathAbs(longitude))
       ELSE longitude

\* the formatted string without Math.abs
Formatted_Signed(latitude, latDir, longitude, lonDir) ==
  Str(toFixed(latitude) \o <<"°", " ", latDir, ",", " ">>
        \o toFixed(longitude) \o <<"°", " ", lonDir>>)

\* `${Math.abs(latitude).toFixed(6)}° ${latDir}, ${Math.abs(longitude).toFixed(6)}° ${lonDir}`
Formatted(latitude, latDir, longitude, lonDir) ==
  Str(toFixed(MathAbs(latitude)) \o <<"°", " ", latDir, ",", " ">>
        \o toFixed(MathAbs(longitude)) \o <<"°", " ", lonDir>>)

\* the URL built from the values rounded to six digits
MapsUrl_Rounded(latitude, longitude) ==
  [t |-> "url", prefix |-> "https://maps.google.com/?q=",
   lat |-> parseFloat(toFixed(latitude)), lon |-> parseFloat(toFixed(longitude))]

\* `https://maps.google.com/?q=${latitude},${longitude}`: the text is the
\* prefix followed by the two numbers as Number.prototype.toString prints
\* them, a one-to-one rendering, so the numbers themselves are kept
MapsUrl(latitude, longitude) ==
  [t |-> "url", prefix |-> "https://maps.google.com/?q=", lat |-> latitude, lon |-> longitude]

\* the returned object with the letters N and E for positive values only
Coordinates_StrictSign(latitude, longitude) ==
  LET latDir == IF GtZero(latitude) THEN "N" ELSE "S"
      lonDir == IF GtZero(longitude) THEN "E" ELSE "W"
  IN Obj([latitude |-> parseFloat(toFixed(latitude)),
          longitude |-> parseFloat(toFixed(longitude)),
          formatted |-> Formatted(latitude, latDir, longitude, lonDir),
          mapsUrl |-> MapsUrl(latitude, longitude)])

\* the object literal returned at the end of processLocationCoordinates
Coordinates(latitude, longitude) ==
  LET latDir == IF GeZero(latitude) THEN "N" ELSE "S"
      lonDir == IF GeZero(longitude) THEN "E" ELSE "W"
  IN Obj([latitude |-> parseFloat(toFixed(latitude)),
          longitude |-> parseFloat(toFixed(longitude)),
          formatted |-> Formatted(latitude, latDir, longitude, lonDir),
          mapsUrl |-> MapsUrl(latitude, longitude)])

\* processLocationCoordinates testing only GPSLatitude for presence: reading
\* `.value` of an absent GPSLongitude raises a TypeError
processLocationCoordinates_LatitudeOnly(rawData) ==
  IF ~Truthy(Lookup(rawData, "GPSLatitude")) THEN Null
  ELSE IF Lookup(rawData, "GPSLongitude").t \in {"undefined", "null"} THEN Threw
  ELSE LET latArray == Get(rawData["GPSLatitude"], "value")
           lonArray == Get(rawData["GPSLongitude"], "value")
           normalizedLatRef == NormalizeRef(RefRaw(rawData, "GPSLatitudeRef"))
           normalizedLonRef == NormalizeRef(RefRaw(rawData, "GPSLongitudeRef"))
       IN IF ~IsArray(latArray) \/ ~IsArray(lonArray) THEN Null
          ELSE LET latDecimal == convertDMSToDecimal(latArray)
                   lonDecimal == convertDMSToDecimal(lonArray)
               IN IF IsThrow(latDecimal) \/ IsThrow(lonDecimal) THEN Threw
                  ELSE Coordinates(CorrectLatitude(latDecimal, normalizedLatRef),
                                   CorrectLongitude(lonDecimal, normalizedLonRef))

\* processLocationCoordinates requiring only one of the two values to be an array
processLocationCoordinates_EitherArray(rawData) ==
  IF ~Truthy(Lookup(rawData, "GPSLatitude")) \/ ~Truthy(Lookup(rawData, "GPSLongitude"))
  THEN Null
  ELSE LET latArray == Get(rawData["GPSLatitude"], "value")
           lonArray == Get(rawData["GPSLongitude"], "value")
           normalizedLatRef == NormalizeRef(RefRaw(rawData, "GPSLatitudeRef"))
           normalizedLonRef == NormalizeRef(RefRaw(rawData, "GPSLongitudeRef"))
       IN IF ~IsArray(latArray) /\ ~IsArray(lonArray) THEN Null
          ELSE LET latDecimal == convertDMSToDecimal(latArray)
                   lonDecimal == convertDMSToDecimal(lonArray)
               IN IF IsThrow(latDecimal) \/ IsThrow(lonDecimal) THEN Threw
                  ELSE Coordinates(CorrectLatitude(latDecimal, normalizedLatRef),
                                   CorrectLongitude(lonDecimal, normalizedLonRef))

\* processLocationCoordinates(rawData): null, a LocationCoordinates object,
\* or the TypeError raised inside safeDivide
processLocationCoordinates(rawData) ==
  IF ~Truthy(Lookup(rawData, "GPSLatitude")) \/ ~Truthy(Lookup(rawData, "GPSLongitude"))
  THEN Null
  ELSE LET latArray == Get(rawData["GPSLatitude"], "value")
           lonArray == Get(rawData["GPSLongitude"], "value")
           normalizedLatRef == NormalizeRef(RefRaw(rawData, "GPSLatitudeRef"))
           normalizedLonRef == NormalizeRef(RefRaw(rawData, "GPSLongitudeRef"))
       IN IF ~IsArray(latArray) \/ ~IsArray(lonArray) THEN Null
          ELSE LET latDecimal == convertDMSToDecimal(latArray)
                   lonDecimal == convertDMSToDecimal(lonArray)
               IN IF IsThrow(latDecimal) \/ IsThrow(lonDecimal) THEN Threw
                  ELSE Coordinates(CorrectLatitude(latDecimal, normalizedLatRef),
                                   CorrectLongitude(lonDecimal, normalizedLonRef))

\* the filter without its test of the key
Keeps_AnyKey(key, value) ==
  TypeOf(value) # "object"
    \/ (TypeOf(value) = "object" /\ value # Null /\ ~IsView(value))

\* the filter without its test for null
Keeps_Null(key, value) ==
  key # "base64"
    /\ (TypeOf(value) # "object" \/ (TypeOf(value) = "object" /\ ~IsView(value)))

\* the filter also dropping the key GPSCoordinates
Keeps_NoCoordinates(key, value) ==
  key # "base64" /\ key # "GPSCoordinates"
    /\ (TypeOf(value) # "object"
          \/ (TypeOf(value) = "object" /\ value # Null /\ ~IsView(value)))

\* the condition under which the first pass of cleanMetadata keeps an entry
Keeps(key, value) ==
  key # "base64"
    /\ (TypeOf(value) # "object"
          \/ (TypeOf(value) = "object" /\ value # Null /\ ~IsView(value)))

\* the first pass of cleanMetadata: filteredData
FilterBinary(rawData) ==
  [key \in {k \in DOMAIN rawData : Keeps(k, rawData[k])} |-> rawData[key]]

\* the unwrapping preferring `value` to `description`
Unwrap_ValueFirst(value) ==
  IF Truthy(value) /\ TypeOf(value) = "object" /\ HasField(value, "value")
  THEN value.f["value"]
  ELSE IF Truthy(value) /\ TypeOf(value) = "object" /\ HasField(value, "description")
       THEN value.f["description"]
       ELSE value

\* the second pass of cleanMetadata, one entry
Unwrap(value) ==
  IF Truthy(value) /\ TypeOf(value) = "object" /\ HasField(value, "description")
  THEN value.f["description"]
  ELSE IF Truthy(value) /\ TypeOf(value) = "object" /\ HasField(value, "value")
       THEN value.f["value"]
       ELSE value

\* the augmentation with latitude and longitude exchanged
Augment_Swapped(cleaned, locationCoordinates) ==
  [key \in DOMAIN cleaned \cup {"GPSLatitude", "GPSLongitude", "GPSCoordinates"} |->
     CASE key = "GPSLatitude" -> locationCoordinates.f["longitude"]
       [] key = "GPSLongitude" -> locationCoordinates.f["latitude"]
       [] key = "GPSCoordinates" -> locationCoordinates
       [] OTHER -> cleaned[key]]

\* the third pass of cleanMetadata: the three GPS keys set on `cleaned`
Augment(cleaned, locationCoordinates) ==
  [key \in DOMAIN cleaned \cup {"GPSLatitude", "GPSLongitude", "GPSCoordinates"} |->
     CASE key = "GPSLatitude" -> locationCoordinates.f["latitude"]
       [] key = "GPSLongitude" -> locationCoordinates.f["longitude"]
       [] key = "GPSCoordinates" -> locationCoordinates
       [] OTHER -> cleaned[key]]

\* a call's completion: the value returned, or an exception
Returned(value) == [threw |-> FALSE, value |-> value]
Raised == [threw |-> TRUE, value |-> Undef]

\* cleanMetadata(rawData)
cleanMetadata(rawData) ==
  LET filteredData == FilterBinary(rawData)
      cleaned == [key \in DOMAIN filteredData |-> Unwrap(filteredData[key])]
      locationCoordinates == processLocationCoordinates(rawData)
  IN IF IsThrow(locationCoordinates) THEN Raised
     ELSE IF Truthy(locationCoordinates)
          THEN Returned(Augment(cleaned, locationCoordinates))
          ELSE Returned(cleaned)

\* the reduction also dropping binary views
RawDataForDisplay_NoViews(tags) ==
  [key \in {k \in DOMAIN tags : k # "base64" /\ ~IsView(tags[k])} |-> tags[key]]

\* the rawDataForDisplay reduction of parseMetadata
RawDataForDisplay(tags) ==
  [key \in {k \in DOMAIN tags : k # "base64"} |-> tags[key]]

\* parseMetadata(file): file.arrayBuffer() may reject and the decoder
\* MetadataReader.load may raise; otherwise the decoder yields file.tags
parseMetadata(file) ==
  IF ~file.readable \/ ~file.decodable THEN Raised
  ELSE LET tags == file.tags
           rawDataForDisplay == RawDataForDisplay(tags)
           cleanedData == cleanMetadata(tags)
       IN IF cleanedData.threw THEN Raised
          ELSE Returned([rawData |-> rawDataForDisplay, cleanedData |-> cleanedData.value])

(***************************************************************************)
(* Explored inputs                                                         *)
(***************************************************************************)
\* marks a key the dictionary does not have
Absent == [t |-> "absent"]

\* the dictionary with the entries of f that are not Absent
Dict(f) == [key \in {k \in DOMAIN f : f[k] # Absent} |-> f[key]]

BoundedSeq(S, n) == UNION {[1..k -> S] : k \in 0..n}

\* fractions [numerator, denominator] as the decoder stores them
Pair(n, d) == Arr(<<Whole(n), Whole(d)>>)
Numerators == (-1..MaxNum) \cup {45, 180, 200}
Denominators == 0..MaxDen
Pairs == {Pair(n, d) : n \in Numerators, d \in Denominators}

\* every array of three fractions
AllDMS == {Arr(<<a, b, c>>) : a \in Pairs, b \in Pairs, c \in Pairs}

\* array elements that are not fractions
OddElements ==
  {Whole(5), Null, Undef, Obj(<<>>), Arr(<<>>), Arr(<<Whole(5)>>),
   Arr(<<Whole(1), Whole(2), Whole(3)>>), View(<<Whole(1), Whole(2)>>)}

\* arrays of the wrong length, and arrays of three with odd elements
OddDMS ==
  {Arr(e) : e \in BoundedSeq({Pair(1, 1)}, 4)}
    \cup {Arr(<<a, b, c>>) : a \in OddElements \cup {Pair(1, 1)},
                             b \in OddElements \cup {Pair(1, 1)},
                             c \in {Pair(1, 1), Whole(5), Null}}

\* the arrays the resolver is explored on: every degrees fraction with a
\* few minutes and seconds
GeoDMS ==
  {Arr(<<a, b, c>>) : a \in Pairs,
                      b \in {Pair(0, 1), Pair(30, 1)},
                      c \in {Pair(0, 1), Pair(1, MaxDen)}}

\* arrays of magnitude below 0.0000005: a thousandth of a second of arc
TinyDMS == {Arr(<<Pair(0, 1), Pair(0, 1), Pair(n, 1000)>>) : n \in {-1, 1}}

\* arrays of whole degrees, minutes and seconds
WholeDMS ==
  {Arr(<<Pair(a, 1), Pair(b, 1), Pair(c, 1)>>) :
     a \in {0, 40, 74}, b \in {0, 30}, c \in {0, 1}}

SouthLatitude == <<"S", "o", "u", "t", "h", " ", "l", "a", "t", "i", "t", "u", "d", "e">>
NorthLatitude == <<"N", "o", "r", "t", "h", " ", "l", "a", "t", "i", "t", "u", "d", "e">>
WestLongitude == <<"W", "e", "s", "t", " ", "l", "o", "n", "g", "i", "t", "u", "d", "e">>
EastLongitude == <<"E", "a", "s", "t", " ", "l", "o", "n", "g", "i", "t", "u", "d", "e">>

RefAlphabet == {"S", "s", "W", "w", "N", "E", " "}
SpacedSouth == <<" ", "s", " ">>
RefStrings ==
  BoundedSeq(RefAlphabet, MaxRefLen)
    \cup {SouthLatitude, NorthLatitude, WestLongitude, EastLongitude, SpacedSouth}

\* what a reference tag's `value` or `description` may hold
RefFieldValues ==
  {Str(s) : s \in RefStrings}
    \cup {Undef, Null, Whole(0), Whole(5), Bool(TRUE), Obj(<<>>),
          Arr(<<Str(<<"S">>)>>), Arr(<<Str(<<"W">>)>>)}

\* the decoder's rendering of the four hemispheres: value [letter] with a description
DecoderRefs ==
  {Obj([value |-> Arr(<<Str(<<"S">>)>>), description |-> Str(SouthLatitude)]),
   Obj([value |-> Arr(<<Str(<<"N">>)>>), description |-> Str(NorthLatitude)]),
   Obj([value |-> Arr(<<Str(<<"W">>)>>), description |-> Str(WestLongitude)]),
   Obj([value |-> Arr(<<Str(<<"E">>)>>), description |-> Str(EastLongitude)]),
   Obj([value |-> Str(<<"S">>), description |-> Str(SouthLatitude)]),
   Obj([value |-> Str(<<"W">>), description |-> Str(WestLongitude)]),
   Obj([value |-> Str(<<"S">>), description |-> Str(<<>>)]),
   Obj([value |-> Str(<<"W">>), description |-> Str(<<"E">>)])}

\* GPSLatitudeRef / GPSLongitudeRef entries
RefTags ==
  {Absent, Null, Str(<<"S">>), Str(<<"W">>)}
    \cup {Obj([value |-> v]) : v \in RefFieldValues}
    \cup {Obj([description |-> v]) : v \in RefFieldValues}
    \cup DecoderRefs

FewRefTags ==
  {Absent, Obj([value |-> Str(<<"S">>)]), Obj([description |-> Str(<<"W">>)]),
   Obj([value |-> Arr(<<Str(<<"S">>)>>), description |-> Str(SouthLatitude)]),
   Obj([value |-> Arr(<<Str(<<"W">>)>>), description |-> Str(WestLongitude)])}

Degrees == <<"4", "0", "°">>

\* a GPSLatitude / GPSLongitude envelope around the array v
GpsTag(v) == Obj([value |-> v, description |-> Str(Degrees)])

\* a dictionary whose latitude tags vary while the longitude is fixed
LatitudeDict(a, r) ==
  Dict([GPSLatitude |-> GpsTag(a), GPSLatitudeRef |-> r,
        GPSLongitude |-> GpsTag(Arr(<<Pair(74, 1), Pair(0, 1), Pair(0, 1)>>)),
        GPSLongitudeRef |-> Obj([description |-> Str(<<"W">>)])])

\* a dictionary whose longitude tags vary while the latitude is fixed
LongitudeDict(a, r) ==
  Dict([GPSLatitude |-> GpsTag(Arr(<<Pair(40, 1), Pair(30, 1), Pair(0, 1)>>)),
        GPSLatitudeRef |-> Obj([description |-> Str(<<"N">>)]),
        GPSLongitude |-> GpsTag(a), GPSLongitudeRef |-> r])

SomeDMS ==
  {Arr(<<Pair(40, 1), Pair(30, 1), Pair(0, 1)>>),
   Arr(<<Pair(1, 0), Pair(0, 1), Pair(1, 2)>>),
   Arr(<<Pair(0, 1), Pair(0, 1), Pair(0, 1)>>),
   Arr(<<>>),
   Arr(<<Pair(1, 1), Pair(1, 1)>>),
   Arr(<<Whole(40), Whole(30), Whole(0)>>),
   Arr(<<Null, Null, Null>>),
   Arr(<<Pair(1, 1), Pair(1, 1), Arr(<<Whole(5)>>)>>)}

\* GPSLatitude / GPSLongitude entries of every shape
GpsTags ==
  {Absent, Null, Whole(0), Whole(7), Str(<<"x">>), Arr(<<>>), Obj(<<>>),
   Obj([description |-> Str(Degrees)]), Obj([value |-> Whole(5)]),
   Obj([value |-> Null]), Obj([value |-> View(<<Whole(1)>>)])}
    \cup {GpsTag(a) : a \in SomeDMS}
    \cup {Obj([value |-> a]) : a \in SomeDMS}

MakeTags ==
  {Absent, Obj([value |-> Arr(<<Whole(1)>>), description |-> Str(<<"C">>)])}

\* a dictionary with GPS tags of any shape
GpsDict(lat, latRef, lon, lonRef, make, b) ==
  Dict([GPSLatitude |-> lat, GPSLatitudeRef |-> latRef,
        GPSLongitude |-> lon, GPSLongitudeRef |-> lonRef, Make |-> make,
        base64 |-> b])

Primitives ==
  {Undef, Null, Bool(TRUE), Bool(FALSE), Whole(0), Whole(5), NaN,
   Str(<<>>), Str(<<"x">>)}
Views == {View(<<>>), View(<<Whole(1), Whole(2)>>)}
FieldValues ==
  Primitives \cup Views \cup {Arr(<<>>), Arr(<<Whole(1)>>), Obj(<<>>)}

\* plain objects with or without `description` / `value`
Envelopes ==
  {Obj(<<>>), Obj([id |-> Whole(1)])}
    \cup {Obj([value |-> v]) : v \in FieldValues}
    \cup {Obj([description |-> d]) : d \in FieldValues}
    \cup {Obj([value |-> v, description |-> d]) : v \in FieldValues, d \in FieldValues}

\* what a tag may hold
TagValues == Primitives \cup Views \cup {Arr(<<>>), Arr(<<Whole(1)>>)} \cup Envelopes

Base64Values ==
  {Absent, Str(<<"A", "B", "=", "=">>), Str(<<>>), Null, View(<<Whole(1)>>),
   Obj([description |-> Str(<<"x">>)])}

ModelTags == {Absent, Str(<<"x">>), View(<<>>)}

\* a dictionary without GPS tags
PlainDict(b, v, w) == Dict([base64 |-> b, Make |-> v, Model |-> w])

\* a file: whether its bytes can be read, whether the decoder accepts
\* them, and the tags the decoder then yields
NoTags == <<>>
File(readable, decodable, tags) ==
  [readable |-> readable, decodable |-> decodable, tags |-> tags]

(***************************************************************************)
(* The calls                                                               *)
(***************************************************************************)
Call(fn, arg) == [fn |-> fn, arg |-> arg]

\* a value or the exception of a helper, as a completion
Completion(v) == IF IsThrow(v) THEN Raised ELSE Returned(v)

\* the explored calls of convertDMSToDecimal
InitConvert ==
  \E a \in AllDMS \cup OddDMS : call = Call("convertDMSToDecimal", a)

\* the explored calls of processLocationCoordinates
InitLocation ==
  \/ \E a \in GeoDMS, r \in RefTags :
       call = Call("processLocationCoordinates", LatitudeDict(a, r))
  \/ \E a \in GeoDMS, r \in RefTags :
       call = Call("processLocationCoordinates", LongitudeDict(a, r))
  \/ \E lat \in GpsTags, lon \in GpsTags, latRef \in FewRefTags, lonRef \in FewRefTags :
       call = Call("processLocationCoordinates",
                   GpsDict(lat, latRef, lon, lonRef, Absent, Absent))
  \/ \E a \in TinyDMS, b \in TinyDMS, latRef \in FewRefTags, lonRef \in FewRefTags :
       call = Call("processLocationCoordinates",
                   GpsDict(GpsTag(a), latRef, GpsTag(b), lonRef, Absent, Absent))
  \/ \E a \in WholeDMS, b \in WholeDMS :
       call = Call("processLocationCoordinates",
                   GpsDict(Obj([value |-> a]), Obj([description |-> Str(<<"N">>)]),
                           Obj([value |-> b]), Obj([description |-> Str(<<"W">>)]),
                           Absent, Absent))

\* the explored calls of cleanMetadata
InitClean ==
  \/ \E b \in Base64Values, v \in TagValues \cup {Absent}, w \in ModelTags :
       call = Call("cleanMetadata", PlainDict(b, v, w))
  \/ \E lat \in GpsTags, lon \in GpsTags, latRef \in FewRefTags, lonRef \in FewRefTags,
        make \in MakeTags :
       call = Call("cleanMetadata", GpsDict(lat, latRef, lon, lonRef, make, Absent))
  \/ \E lat \in GpsTags, lon \in GpsTags, b \in Base64Values :
       call = Call("cleanMetadata",
                   GpsDict(lat, Absent, lon, Obj([description |-> Str(<<"W">>)]), Absent, b))

\* the explored calls of parseMetadata
InitParse ==
  \/ \E readable \in BOOLEAN :
       call = Call("parseMetadata", File(readable, FALSE, NoTags))
  \/ \E b \in Base64Values, v \in TagValues \cup {Absent}, w \in ModelTags :
       call = Call("parseMetadata", File(TRUE, TRUE, PlainDict(b, v, w)))
  \/ \E lat \in GpsTags, lon \in GpsTags, b \in Base64Values :
       call = Call("parseMetadata",
                   File(TRUE, TRUE,
                        GpsDict(lat, Absent, lon, Obj([description |-> Str(<<"W">>)]),
                                Absent, b)))

(***************************************************************************)
(* App: the component state, the object URLs of the browser and the        *)
(* parseMetadata promises in flight                                        *)
(***************************************************************************)
MaxUploads == 3

EmptyString == ""

\* setError('Failed to parse metadata. ...')
FailureMessage == "Failed to parse metadata. Please ensure the file is a valid image with metadata."

\* the useState initial values
InitialApp ==
  [metadataData |-> Null, cleanedData |-> Null, fileName |-> EmptyString,
   imageUrl |-> EmptyString, isLoading |-> FALSE, error |-> EmptyString,
   showUploader |-> TRUE]

\* App before its first event: no object URL created, no parse in flight
AppStarts ==
  /\ app = InitialApp
  /\ live = {}
  /\ created = 0
  /\ pending = {}
  /\ unhandled = FALSE

\* the objects a returned reference can denote
RawDataObject == "rawData"
\* `const cleaned: CleanedData = {}`
CleanedObject == "cleaned"
\* the object literal that processLocationCoordinates returns
CoordinateObject == "coordinate"
\* the object literal that parseMetadata returns
MetadataObject == "metadata"
\* a completion that is no reference: a number, null or an exception
NoObject == "none"

\* `return cleaned`
ObjectOfClean(completion) == IF completion.threw THEN NoObject ELSE CleanedObject

\* `return null` or `return { latitude, longitude, formatted, mapsUrl }`
ObjectOfLocation(completion) ==
  IF ~completion.threw /\ completion.value.t = "object" THEN CoordinateObject ELSE NoObject

\* `return { rawData: rawDataForDisplay, cleanedData }`
ObjectOfParse(completion) == IF completion.threw THEN NoObject ELSE MetadataObject

\* cleanMetadata writing the GPS keys into rawData as well
RawDataAfterClean_Augmented(rawData) ==
  LET locationCoordinates == processLocationCoordinates(rawData)
  IN IF ~IsThrow(locationCoordinates) /\ Truthy(locationCoordinates)
     THEN Augment(rawData, locationCoordinates)
     ELSE rawData

\* the caller's dictionary after cleanMetadata: the assignments of
\* cleanMetadata are to acc[key], to cleaned[key] and to the three GPS keys
\* of cleaned, none to rawData or to an object reached from it
RawDataAfterClean(rawData) == rawData

\* the caller's dictionary after processLocationCoordinates: its assignments
\* are to the locals latitude and longitude, and convertDMSToDecimal builds
\* its fractions in a new array (dmsArray.map)
RawDataAfterLocation(rawData) == rawData

Init ==
  /\ pc = "ready"
  /\ ret = Returned(Undef)
  /\ obj = NoObject
  /\ AppStarts
  /\ (InitConvert \/ InitLocation \/ InitClean \/ InitParse)

CallConvertDMSToDecimal ==
  /\ pc = "ready"
  /\ call.fn = "convertDMSToDecimal"
  /\ ret' = Completion(convertDMSToDecimal(call.arg))
  /\ obj' = NoObject
  /\ pc' = "done"
  /\ UNCHANGED call
  /\ UNCHANGED appVars

CallProcessLocationCoordinates ==
  /\ pc = "ready"
  /\ call.fn = "processLocationCoordinates"
  /\ ret' = Completion(processLocationCoordinates(call.arg))
  /\ obj' = ObjectOfLocation(ret')
  /\ call' = [call EXCEPT !.arg = RawDataAfterLocation(call.arg)]
  /\ pc' = "done"
  /\ UNCHANGED appVars

CallCleanMetadata ==
  /\ pc = "ready"
  /\ call.fn = "cleanMetadata"
  /\ ret' = cleanMetadata(call.arg)
  /\ obj' = ObjectOfClean(ret')
  /\ call' = [call EXCEPT !.arg = RawDataAfterClean(call.arg)]
  /\ pc' = "done"
  /\ UNCHANGED appVars

CallParseMetadata ==
  /\ pc = "ready"
  /\ call.fn = "parseMetadata"
  /\ ret' = parseMetadata(call.arg)
  /\ obj' = ObjectOfParse(ret')
  /\ pc' = "done"
  /\ UNCHANGED call
  /\ UNCHANGED appVars

Next ==
  \/ CallConvertDMSToDecimal
  \/ CallProcessLocationCoordinates
  \/ CallCleanMetadata
  \/ CallParseMetadata

Spec == Init /\ [][Next]_vars

(***************************************************************************)
(* App: its handlers                                                       *)
(***************************************************************************)
\* the k-th string that URL.createObjectURL returns: each call a new one
ObjectUrl(k) == "blob:" \o ToString(k)

\* const hasData = metadataData && cleanedData
hasData(state) == state.metadataData # Null /\ state.cleanedData # Null

\* const hasImage = imageUrl && fileName
hasImage(state) == state.imageUrl # EmptyString /\ state.fileName # EmptyString

\* a file input that is never disabled
InputEnabled_WhileLoading(state) == state.showUploader

\* the file input is rendered with the uploader and disabled while loading
InputEnabled(state) == state.showUploader /\ ~state.isLoading

\* the clear button is rendered with the uploader once a file is named
ClearShown(state) == state.showUploader /\ state.fileName # EmptyString

\* the navigation menu is rendered when there is data or an image
NavigationShown(state) == hasData(state) \/ hasImage(state)

\* handleFileUpload up to its await: the four setters with the new URL
Started(state, file, url) ==
  [state EXCEPT !.isLoading = TRUE, !.error = EmptyString,
                !.fileName = file.name, !.imageUrl = url]

\* the try block after the await: parseMetadata resolved with result
Try(state, result) ==
  [state EXCEPT !.metadataData = result.rawData,
                !.cleanedData = result.cleanedData,
                !.showUploader = FALSE]

\* the catch block
Catch(state) == [state EXCEPT !.error = FailureMessage]

\* a finally block that leaves isLoading as it is
Finally_KeepsLoading(state) == state

\* the finally block
Finally(state) == [state EXCEPT !.isLoading = FALSE]

\* the continuation of handleFileUpload when parseMetadata resolves
Fulfilled(state, result) == [app |-> Finally(Try(state, result)), rethrown |-> FALSE]

\* the continuation without a catch block: the rejection leaves the handler
Rejected_Uncaught(state) == [app |-> Finally(state), rethrown |-> TRUE]

\* the continuation of handleFileUpload when parseMetadata rejects: the
\* catch block has no rethrow
Rejected(state) == [app |-> Finally(Catch(state)), rethrown |-> FALSE]

\* clearData: the component state after it
Cleared(state) ==
  [state EXCEPT !.metadataData = Null, !.cleanedData = Null,
                !.fileName = EmptyString, !.error = EmptyString,
                !.showUploader = TRUE, !.imageUrl = EmptyString]

\* clearData: the object URLs after `if (imageUrl) URL.revokeObjectURL(imageUrl)`
Revoked(urls, state) ==
  IF state.imageUrl # EmptyString THEN urls \ {state.imageUrl} ELSE urls

\* the object URLs after handleFileUpload: the new one is added
Registered(urls, state, url) == urls \cup {url}

\* the files a user may choose
NamedFile(name, file) == [name |-> name] @@ file
NoFile == [name |-> EmptyString]
PhotoA ==
  NamedFile("a.jpg",
    File(TRUE, TRUE,
         GpsDict(GpsTag(Arr(<<Pair(40, 1), Pair(30, 1), Pair(0, 1)>>)),
                 Obj([description |-> Str(<<"N">>)]),
                 GpsTag(Arr(<<Pair(74, 1), Pair(0, 1), Pair(0, 1)>>)),
                 Obj([description |-> Str(<<"W">>)]),
                 Obj([description |-> Str(<<"C">>)]),
                 Str(<<"A", "B", "=", "=">>))))
PhotoB ==
  NamedFile("b.jpg",
    File(TRUE, TRUE, PlainDict(Absent, Obj([description |-> Str(<<"x">>)]), View(<<>>))))
Drawing == NamedFile("c.png", File(TRUE, FALSE, NoTags))
Unreadable == NamedFile("d.jpg", File(FALSE, FALSE, NoTags))
Malformed ==
  NamedFile("e.jpg",
    File(TRUE, TRUE,
         GpsDict(Obj([value |-> Arr(<<Whole(40), Whole(30), Whole(0)>>)]), Absent,
                 Obj([value |-> Arr(<<Whole(74), Whole(0), Whole(0)>>)]), Absent,
                 Absent, Absent)))
AppFiles == {PhotoA, PhotoB, Drawing, Unreadable, Malformed}

\* the promise of the id-th call MetadataService.parseMetadata(file), with
\* the completion it settles to
Promise(id, file) == [id |-> id, file |-> file, result |-> parseMetadata(file)]

\* the change event of the file input with the chosen file, if any
handleFileUpload ==
  /\ InputEnabled(app)
  /\ created < MaxUploads
  /\ \E file \in AppFiles \cup {NoFile} :
       IF file = NoFile
       THEN UNCHANGED appVars
       ELSE LET url == ObjectUrl(created + 1)
            IN /\ created' = created + 1
               /\ live' = Registered(live, app, url)
               /\ app' = Started(app, file, url)
               /\ pending' = pending \cup {Promise(created + 1, file)}
               /\ UNCHANGED unhandled
  /\ UNCHANGED serviceVars

\* the promise of parseMetadata(file) resolves and handleFileUpload resumes
ParseResolves ==
  /\ \E p \in pending :
       /\ ~p.result.threw
       /\ app' = Fulfilled(app, p.result.value).app
       /\ unhandled' = (unhandled \/ Fulfilled(app, p.result.value).rethrown)
       /\ pending' = pending \ {p}
  /\ UNCHANGED <<live, created>>
  /\ UNCHANGED serviceVars

\* the promise of parseMetadata(file) rejects and handleFileUpload resumes
ParseRejects ==
  /\ \E p \in pending :
       /\ p.result.threw
       /\ app' = Rejected(app).app
       /\ unhandled' = (unhandled \/ Rejected(app).rethrown)
       /\ pending' = pending \ {p}
  /\ UNCHANGED <<live, created>>
  /\ UNCHANGED serviceVars

\* a click on the clear button
clearData ==
  /\ ClearShown(app)
  /\ app' = Cleared(app)
  /\ live' = Revoked(live, app)
  /\ UNCHANGED <<created, pending, unhandled>>
  /\ UNCHANGED serviceVars

\* a click on "Upload New File"
handleShowUploader ==
  /\ NavigationShown(app)
  /\ app' = [app EXCEPT !.showUploader = TRUE]
  /\ UNCHANGED <<live, created, pending, unhandled>>
  /\ UNCHANGED serviceVars

AppInit ==
  /\ pc = "app"
  /\ call = Call("App", Undef)
  /\ ret = Returned(Undef)
  /\ obj = NoObject
  /\ AppStarts

AppNext ==
  \/ handleFileUpload
  \/ ParseResolves
  \/ ParseRejects
  \/ clearData
  \/ handleShowUploader

AppSpec == AppInit /\ [][AppNext]_vars

\* a promise of parseMetadata settles: file.arrayBuffer() and the decoder
\* both complete
AppLiveSpec == AppSpec /\ WF_vars(ParseResolves) /\ WF_vars(ParseRejects)

TypeOK == pc \in {"ready", "done", "app"} /\ ret.threw \in BOOLEAN

(***************************************************************************)
(* Properties                                                              *)
(***************************************************************************)
Done(fn) == pc = "done" /\ call.fn = fn

GpsKeys == {"GPSLatitude", "GPSLongitude", "GPSCoordinates"}

\* a fraction [n, d] of two numbers
IsFraction(p) ==
  /\ p.t = "array"
  /\ Len(p.e) = 2
  /\ \A i \in 1..2 : p.e[i].t = "number" /\ ~p.e[i].nan /\ p.e[i].d = 1

\* an array of exactly three fractions
IsDMS(a) == a.t = "array" /\ Len(a.e) = 3 /\ \A i \in 1..3 : IsFraction(a.e[i])

Numer(a, i) == a.e[i].e[1].n
Denom(a, i) == a.e[i].e[2].n

\* n1/d1 + (n2/d2)/60 + (n3/d3)/3600 over the common denominator
SumOfTerms(n1, d1, n2, d2, n3, d3) ==
  Frac(n1 * d2 * d3 * 3600 + n2 * d1 * d3 * 60 + n3 * d1 * d2, d1 * d2 * d3 * 3600)

\* the decimal degrees of a DMS array, a fraction with denominator 0 counting as 0
DecimalDegrees(a) ==
  LET n(i) == IF Denom(a, i) = 0 THEN 0 ELSE Numer(a, i)
      d(i) == IF Denom(a, i) = 0 THEN 1 ELSE Denom(a, i)
  IN SumOfTerms(n(1), d(1), n(2), d(2), n(3), d(3))

\* an array whose decimal degrees are a number: three fractions, or not three elements
IsNumericDMS(a) == a.t = "array" /\ (Len(a.e) # 3 \/ IsDMS(a))
DecimalOf(a) == IF Len(a.e) # 3 THEN Whole(0) ELSE DecimalDegrees(a)

\* x <= 0
LeZero(x) == ~x.nan /\ x.n <= 0

\* C1: cleanMetadata never throws, whatever the shape of the dictionary;
\* it always returns a mapping.
C1_CleanNeverThrows == Done("cleanMetadata") => ~ret.threw

\* C2: the mapping returned by cleanMetadata holds no binary buffer view,
\* also where the value was unwrapped from an envelope.
C2_NoBinaryValue ==
  (Done("cleanMetadata") /\ ~ret.threw) =>
    \A key \in DOMAIN ret.value : ~IsView(ret.value[key])

\* C3: the mapping returned by cleanMetadata has no key base64, and neither
\* has the rawData (nor the cleanedData) returned by parseMetadata.
C3_NoBase64Key ==
  /\ (Done("cleanMetadata") /\ ~ret.threw) => "base64" \notin DOMAIN ret.value
  /\ (Done("parseMetadata") /\ ~ret.threw) =>
       /\ "base64" \notin DOMAIN ret.value.rawData
       /\ "base64" \notin DOMAIN ret.value.cleanedData

C3_Witness ==
  /\ Done("parseMetadata")
  /\ ~ret.threw
  /\ "base64" \in DOMAIN call.arg.tags
  /\ call.arg.tags["base64"].t = "string"
  /\ DOMAIN ret.value.rawData # {}

\* C4 as claimed: cleanMetadata drops only the entries keyed base64 and
\* those whose value is a binary view; every other key is in the output.
C4_DropsOnlyBase64AndViews ==
  (Done("cleanMetadata") /\ ~ret.threw) =>
    \A key \in DOMAIN call.arg :
      (key # "base64" /\ ~IsView(call.arg[key])) => key \in DOMAIN ret.value

\* C4 amended: cleanMetadata drops exactly the entries keyed base64, those
\* whose value is null and those whose value is a binary view, except that
\* the three GPS keys are set whenever the coordinates resolve.
C4_DropsBase64NullAndViews ==
  (Done("cleanMetadata") /\ ~ret.threw) =>
    /\ \A key \in DOMAIN call.arg :
         (key # "base64" /\ call.arg[key] # Null /\ ~IsView(call.arg[key]))
           => key \in DOMAIN ret.value
    /\ \A key \in DOMAIN call.arg \ GpsKeys :
         (key = "base64" \/ call.arg[key] = Null \/ IsView(call.arg[key]))
           => key \notin DOMAIN ret.value

C4_Witness ==
  /\ Done("cleanMetadata")
  /\ ~ret.threw
  /\ \E key \in DOMAIN call.arg \ GpsKeys : call.arg[key] = Null
  /\ \E key \in DOMAIN call.arg : IsView(call.arg[key])
  /\ \E key \in DOMAIN ret.value : key \in DOMAIN call.arg

\* C5: every retained entry that is not a GPS key comes out as its
\* description if it is an object with a description field, else as its
\* value if it is an object with a value field, else unchanged.
C5_Unwrapping ==
  (Done("cleanMetadata") /\ ~ret.threw) =>
    \A key \in DOMAIN ret.value \ GpsKeys :
      LET v == call.arg[key]
          out == ret.value[key]
      IN /\ (v.t = "object" /\ "description" \in DOMAIN v.f) => out = v.f["description"]
         /\ (v.t = "object" /\ "description" \notin DOMAIN v.f /\ "value" \in DOMAIN v.f)
              => out = v.f["value"]
         /\ (v.t # "object" \/ DOMAIN v.f \cap {"description", "value"} = {}) => out = v

C5_Witness ==
  /\ Done("cleanMetadata")
  /\ ~ret.threw
  /\ \E key \in DOMAIN ret.value \ GpsKeys :
       /\ call.arg[key].t = "object"
       /\ {"description", "value"} \subseteq DOMAIN call.arg[key].f
       /\ call.arg[key].f["description"] # call.arg[key].f["value"]
       /\ ret.value[key] = call.arg[key].f["description"]

\* C6: for three fractions with positive denominators convertDMSToDecimal
\* returns n1/d1 + (n2/d2)/60 + (n3/d3)/3600.
C6_DecimalFormula ==
  (Done("convertDMSToDecimal") /\ IsDMS(call.arg)
     /\ \A i \in 1..3 : Denom(call.arg, i) > 0) =>
    /\ ~ret.threw
    /\ ret.value = SumOfTerms(Numer(call.arg, 1), Denom(call.arg, 1),
                              Numer(call.arg, 2), Denom(call.arg, 2),
                              Numer(call.arg, 3), Denom(call.arg, 3))

C6_Witness ==
  /\ Done("convertDMSToDecimal")
  /\ IsDMS(call.arg)
  /\ \A i \in 1..3 : Denom(call.arg, i) > 1 /\ Numer(call.arg, i) > 0
  /\ ret.value = Frac(45 * 3600 + 60 + 1, 2 * 3600)

\* C7: a fraction whose denominator is 0 contributes 0 whatever its
\* numerator, the other fractions still contribute their quotient, and the
\* result is a finite number, not an exception.
C7_ZeroDenominator ==
  (Done("convertDMSToDecimal") /\ IsDMS(call.arg)
     /\ \E i \in 1..3 : Denom(call.arg, i) = 0) =>
    /\ ~ret.threw
    /\ ret.value.t = "number"
    /\ ~ret.value.nan
    /\ ret.value = DecimalDegrees(call.arg)

C7_Witness ==
  /\ Done("convertDMSToDecimal")
  /\ IsDMS(call.arg)
  /\ Denom(call.arg, 1) = 0 /\ Numer(call.arg, 1) = 200
  /\ Denom(call.arg, 2) = 1 /\ Numer(call.arg, 2) = 45
  /\ Denom(call.arg, 3) = 0 /\ Numer(call.arg, 3) = 1
  /\ ret.value = Frac(3, 4)

\* a call of processLocationCoordinates that returned a coordinate object
\* for GPS arrays whose decimal degrees are numbers
Resolved ==
  /\ Done("processLocationCoordinates")
  /\ ~ret.threw
  /\ ret.value.t = "object"
  /\ IsNumericDMS(call.arg["GPSLatitude"].f["value"])
  /\ IsNumericDMS(call.arg["GPSLongitude"].f["value"])

LatDecimal == DecimalOf(call.arg["GPSLatitude"].f["value"])
LonDecimal == DecimalOf(call.arg["GPSLongitude"].f["value"])
LatRef == NormalizeRef(RefRaw(call.arg, "GPSLatitudeRef"))
LonRef == NormalizeRef(RefRaw(call.arg, "GPSLongitudeRef"))

\* the value the returned fields hold for a resolved coordinate x
Rounded(x) == parseFloat(toFixed(x))

\* C8: a normalized latitude reference "S" resolves the latitude to minus
\* the absolute value of the DMS decimal, which is <= 0; a reference "N"
\* or an empty one leaves the DMS decimal unchanged.
C8_LatitudeHemisphere ==
  Resolved =>
    /\ LatRef = <<"S">> =>
         /\ ret.value.f["mapsUrl"].lat = Neg(MathAbs(LatDecimal))
         /\ ret.value.f["latitude"] = Rounded(Neg(MathAbs(LatDecimal)))
         /\ LeZero(ret.value.f["latitude"])
    /\ LatRef \in {<<"N">>, <<>>} =>
         /\ ret.value.f["mapsUrl"].lat = LatDecimal
         /\ ret.value.f["latitude"] = Rounded(LatDecimal)

C8_Witness ==
  /\ Resolved
  /\ LatRef = <<"S">>
  /\ LatDecimal = Frac(91, 2)
  /\ ret.value.f["latitude"] = Frac(-91, 2)

\* whether a reference tag designates the hemisphere by its raw value,
\* the letter itself or the decoder's one-letter array
Designates(tag, letter) ==
  /\ tag.t = "object"
  /\ "value" \in DOMAIN tag.f
  /\ tag.f["value"] \in {Str(<<letter>>), Arr(<<Str(<<letter>>)>>)}

\* C9: a GPSLatitudeRef that designates South, with whatever description,
\* resolves to a latitude <= 0, as a GPSLongitudeRef that designates West
\* resolves to a longitude <= 0.
C9_SouthIsNegative ==
  Resolved =>
    /\ Designates(Lookup(call.arg, "GPSLatitudeRef"), "S")
         => LeZero(ret.value.f["latitude"])
    /\ Designates(Lookup(call.arg, "GPSLongitudeRef"), "W")
         => LeZero(ret.value.f["longitude"])

\* C10: a normalized longitude reference that starts with "W" resolves the
\* longitude to minus the absolute value of the DMS decimal, which is <= 0.
C10_WestIsNegative ==
  (Resolved /\ Len(LonRef) > 0 /\ LonRef[1] = "W") =>
    /\ ret.value.f["mapsUrl"].lon = Neg(MathAbs(LonDecimal))
    /\ ret.value.f["longitude"] = Rounded(Neg(MathAbs(LonDecimal)))
    /\ LeZero(ret.value.f["longitude"])

C10_Witness ==
  /\ Resolved
  /\ LonRef = toUpperCase(WestLongitude)
  /\ LonDecimal = Frac(91, 2)
  /\ ret.value.f["longitude"] = Frac(-91, 2)

\* C11: with an empty or absent longitude reference a DMS decimal strictly
\* between 0 and 180 is negated (45 gives -45) and any other decimal (0,
\* 180 or more, e.g. 200) is returned unchanged.
C11_LongitudeFallback ==
  (Resolved /\ LonRef = <<>>) =>
    LET inWindow == LonDecimal.n > 0 /\ LonDecimal.n < 180 * LonDecimal.d
        expected == IF inWindow THEN Frac(-LonDecimal.n, LonDecimal.d) ELSE LonDecimal
    IN /\ ret.value.f["mapsUrl"].lon = expected
       /\ ret.value.f["longitude"] = Rounded(expected)

C11_Witness ==
  /\ Resolved
  /\ "GPSLongitudeRef" \notin DOMAIN call.arg
  /\ LonDecimal = Whole(45)
  /\ ret.value.f["longitude"] = Whole(-45)

\* the position of the first c in s
IndexOf(s, c) == CHOOSE i \in 1..Len(s) : s[i] = c /\ \A j \in 1..(i - 1) : s[j] # c

\* the direction letters of a formatted string "<lat>° <letter>, <lon>° <letter>"
LatLetter(formatted) == formatted.s[IndexOf(formatted.s, ",") - 1]
LonLetter(formatted) == formatted.s[Len(formatted.s)]

\* the signed decimals before rounding, from the DMS decimals and the references
SignedLatitude ==
  IF LatRef = <<"S">> THEN Frac(-AbsInt(LatDecimal.n), LatDecimal.d) ELSE LatDecimal
SignedLongitude ==
  IF (Len(LonRef) > 0 /\ LonRef[1] = "W")
       \/ (LonRef = <<>> /\ LonDecimal.n > 0 /\ LonDecimal.n < 180 * LonDecimal.d)
  THEN Frac(-AbsInt(LonDecimal.n), LonDecimal.d)
  ELSE LonDecimal

\* C12 as claimed: the letters of `formatted` follow the sign of the
\* returned, rounded fields: N (E) exactly when latitude (longitude) >= 0.
C12_LettersFromRounded ==
  Resolved =>
    /\ LatLetter(ret.value.f["formatted"])
         = (IF ret.value.f["latitude"].n >= 0 THEN "N" ELSE "S")
    /\ LonLetter(ret.value.f["formatted"])
         = (IF ret.value.f["longitude"].n >= 0 THEN "E" ELSE "W")

\* C12 amended: the letters follow the sign of the values before rounding:
\* N (E) exactly when the corrected latitude (longitude) is >= 0, so a
\* negative value that rounds to zero is still lettered S (W).
C12_LettersFromUnrounded ==
  Resolved =>
    /\ LatLetter(ret.value.f["formatted"]) = (IF SignedLatitude.n >= 0 THEN "N" ELSE "S")
    /\ LonLetter(ret.value.f["formatted"]) = (IF SignedLongitude.n >= 0 THEN "E" ELSE "W")

C12_Witness ==
  /\ Resolved
  /\ SignedLatitude.n < 0
  /\ ret.value.f["latitude"] = Whole(0)
  /\ LatLetter(ret.value.f["formatted"]) = "S"
  /\ SignedLongitude.n > 0
  /\ LonLetter(ret.value.f["formatted"]) = "E"

\* C13 as claimed: mapsUrl carries the same values as the returned
\* latitude and longitude fields, the values rounded to 6 digits.
C13_UrlFromRounded ==
  Resolved =>
    /\ ret.value.f["mapsUrl"].lat = ret.value.f["latitude"]
    /\ ret.value.f["mapsUrl"].lon = ret.value.f["longitude"]

\* C13 amended: mapsUrl is "https://maps.google.com/?q={lat},{lon}" with
\* the signed values before rounding; the latitude and longitude fields
\* are those values rounded to 6 fractional digits.
C13_UrlFromUnrounded ==
  Resolved =>
    /\ ret.value.f["mapsUrl"].prefix = "https://maps.google.com/?q="
    /\ ret.value.f["mapsUrl"].lat = SignedLatitude
    /\ ret.value.f["mapsUrl"].lon = SignedLongitude
    /\ ret.value.f["latitude"] = Rounded(SignedLatitude)
    /\ ret.value.f["longitude"] = Rounded(SignedLongitude)

C13_Witness ==
  /\ Resolved
  /\ ret.value.f["mapsUrl"].lat = Frac(1, 7200)
  /\ ret.value.f["latitude"] = Frac(139, 1000000)
  /\ ret.value.f["mapsUrl"].lon = Whole(-74)
  /\ ret.value.f["longitude"] = Whole(-74)

\* an array of three fractions n/1 with n >= 0
IsWholeDMS(a) == IsDMS(a) /\ \A i \in 1..3 : Denom(a, i) = 1 /\ Numer(a, i) >= 0

\* a resolved call on whole DMS arrays with references N and W
WholeNorthWest ==
  /\ Resolved
  /\ IsWholeDMS(call.arg["GPSLatitude"].f["value"])
  /\ IsWholeDMS(call.arg["GPSLongitude"].f["value"])
  /\ LatRef = <<"N">>
  /\ LonRef = <<"W">>

\* "<lat>° <latLetter>, <lon>° <lonLetter>" with six fraction digits
FormattedText(lat, latLetter, lon, lonLetter) ==
  Str(toFixed(lat) \o <<"°", " ", latLetter, ",", " ">> \o toFixed(lon)
        \o <<"°", " ", lonLetter>>)

\* C14 as claimed: for whole DMS arrays with references N and W the
\* latitude is the DMS decimal, the longitude the negated DMS decimal and
\* `formatted` shows both magnitudes with 6 fraction digits, then N and W.
C14_NorthWest ==
  WholeNorthWest =>
    /\ ret.value.f["latitude"] = Rounded(LatDecimal)
    /\ ret.value.f["longitude"] = Rounded(Frac(-LonDecimal.n, LonDecimal.d))
    /\ ret.value.f["formatted"] = FormattedText(LatDecimal, "N", LonDecimal, "W")

\* C14 amended: the same, except that a longitude of exactly zero
\* degrees is lettered E.
C14_NorthWestUnlessZero ==
  WholeNorthWest =>
    /\ ret.value.f["latitude"] = Rounded(LatDecimal)
    /\ ret.value.f["longitude"] = Rounded(Frac(-LonDecimal.n, LonDecimal.d))
    /\ ret.value.f["formatted"]
         = FormattedText(LatDecimal, "N", LonDecimal,
                         IF LonDecimal.n = 0 THEN "E" ELSE "W")

\* the scenario: 40 deg 30 min N, 74 deg W
C14_Witness ==
  /\ Done("processLocationCoordinates")
  /\ call.arg = [GPSLatitude |-> Obj([value |-> Arr(<<Pair(40, 1), Pair(30, 1), Pair(0, 1)>>)]),
                 GPSLatitudeRef |-> Obj([description |-> Str(<<"N">>)]),
                 GPSLongitude |-> Obj([value |-> Arr(<<Pair(74, 1), Pair(0, 1), Pair(0, 1)>>)]),
                 GPSLongitudeRef |-> Obj([description |-> Str(<<"W">>)])]
  /\ ~ret.threw
  /\ ret.value.f["latitude"] = Frac(81, 2)
  /\ ret.value.f["longitude"] = Whole(-74)
  /\ ret.value.f["formatted"] =
       Str(<<"4", "0", ".", "5", "0", "0", "0", "0", "0", "°", " ", "N", ",", " ",
             "7", "4", ".", "0", "0", "0", "0", "0", "0", "°", " ", "W">>)

\* absent from the dictionary, or one of the falsy values
Falsy(rawData, key) ==
  key \notin DOMAIN rawData
    \/ rawData[key] \in {Undef, Null, Bool(FALSE), Whole(0), NaN, Str(<<>>)}

\* what ordinary unwrapping makes of an entry's value
Unwrapped(v) ==
  IF v.t = "object" /\ "description" \in DOMAIN v.f THEN v.f["description"]
  ELSE IF v.t = "object" /\ "value" \in DOMAIN v.f THEN v.f["value"]
  ELSE v

\* C15: when GPSLatitude or GPSLongitude is absent or falsy,
\* processLocationCoordinates returns null, the output of cleanMetadata has
\* no GPSCoordinates key, and a GPSLatitude / GPSLongitude entry of the
\* input comes out as ordinary unwrapping leaves it.
C15_MissingGps ==
  /\ (Done("processLocationCoordinates")
        /\ (Falsy(call.arg, "GPSLatitude") \/ Falsy(call.arg, "GPSLongitude")))
       => (~ret.threw /\ ret.value = Null)
  /\ (Done("cleanMetadata") /\ "GPSCoordinates" \notin DOMAIN call.arg
        /\ (Falsy(call.arg, "GPSLatitude") \/ Falsy(call.arg, "GPSLongitude")))
       => /\ ~ret.threw
          /\ "GPSCoordinates" \notin DOMAIN ret.value
          /\ \A key \in {"GPSLatitude", "GPSLongitude"} :
               /\ key \in DOMAIN ret.value
                    => (key \in DOMAIN call.arg /\ ret.value[key] = Unwrapped(call.arg[key]))
               /\ (key \in DOMAIN call.arg /\ call.arg[key] # Null /\ ~IsView(call.arg[key]))
                    => key \in DOMAIN ret.value

C15_Witness ==
  /\ Done("cleanMetadata")
  /\ ~ret.threw
  /\ "GPSLongitude" \notin DOMAIN call.arg
  /\ "GPSLatitude" \in DOMAIN call.arg
  /\ call.arg["GPSLatitude"].t = "object"
  /\ {"value", "description"} \subseteq DOMAIN call.arg["GPSLatitude"].f
  /\ Len(call.arg["GPSLatitude"].f["value"].e) = 3
  /\ ret.value["GPSLatitude"] = Str(Degrees)
  /\ "GPSCoordinates" \notin DOMAIN ret.value

\* the Coordinate that processLocationCoordinates makes of a dictionary
Coordinate(rawData) == processLocationCoordinates(rawData)

\* a dictionary from which a non-null Coordinate is resolved
HasCoordinate(rawData) == Coordinate(rawData).t = "object"

\* an entry that is neither the base64 payload, nor null, nor a binary view
Displayable(key, value) == key # "base64" /\ value # Null /\ value.t # "view"

\* C16: whenever processLocationCoordinates returns a non-null Coordinate,
\* the output of cleanMetadata has the keys GPSLatitude, GPSLongitude and
\* GPSCoordinates, GPSLatitude and GPSLongitude are the numbers
\* GPSCoordinates.latitude and GPSCoordinates.longitude, GPSCoordinates is
\* the Coordinate, and every other key is present and valued exactly as
\* filtering and unwrapping leave it.
C16_Augmentation ==
  (Done("cleanMetadata") /\ HasCoordinate(call.arg))
    => /\ ~ret.threw
       /\ GpsKeys \subseteq DOMAIN ret.value
       /\ ret.value["GPSCoordinates"] = Coordinate(call.arg)
       /\ ret.value["GPSLatitude"] = ret.value["GPSCoordinates"].f["latitude"]
       /\ ret.value["GPSLongitude"] = ret.value["GPSCoordinates"].f["longitude"]
       /\ ret.value["GPSLatitude"].t = "number"
       /\ ret.value["GPSLongitude"].t = "number"
       /\ DOMAIN ret.value \ GpsKeys
            = {k \in DOMAIN call.arg \ GpsKeys : Displayable(k, call.arg[k])}
       /\ \A k \in DOMAIN ret.value \ GpsKeys : ret.value[k] = Unwrapped(call.arg[k])

C16_Witness ==
  /\ Done("cleanMetadata")
  /\ HasCoordinate(call.arg)
  /\ "description" \in DOMAIN call.arg["GPSLatitude"].f
  /\ "Make" \in DOMAIN call.arg
  /\ "Make" \in DOMAIN ret.value
  /\ ret.value["GPSLatitude"].t = "number"
  /\ ret.value["GPSLatitude"] # ret.value["GPSLongitude"]
  /\ ret.value["GPSCoordinates"].t = "object"

\* cleanMetadata applied to the completion of a call of cleanMetadata: an
\* exception of the inner call propagates
Again(completion) ==
  IF completion.threw THEN Raised ELSE cleanMetadata(completion.value)

\* a binary view, or an envelope carrying one
HoldsView(v) ==
  v.t = "view" \/ (v.t = "object" /\ \E name \in DOMAIN v.f : v.f[name].t = "view")

\* a dictionary with no base64 key and no binary-view values
NoBinary(d) == "base64" \notin DOMAIN d /\ \A k \in DOMAIN d : ~HoldsView(d[k])

\* a value that a further normalization would drop or unwrap
Reducible(v) ==
  v = Null \/ v.t = "view" \/ HasField(v, "description") \/ HasField(v, "value")

\* C17 as stated: for every dictionary d with no base64 key and no
\* binary-view values, cleanMetadata(cleanMetadata(d)) = cleanMetadata(d).
C17_Idempotent ==
  (Done("cleanMetadata") /\ NoBinary(call.arg)) => Again(ret) = ret

\* C17: for every dictionary d with no base64 key and no binary-view values,
\* cleanMetadata(cleanMetadata(d)) completes as cleanMetadata(d) does (the same
\* mapping, or an exception in both) provided that no value of the mapping
\* cleanMetadata(d) is null or still carries a description or value field.
C17_IdempotentOnPlainValues ==
  (Done("cleanMetadata") /\ NoBinary(call.arg)
     /\ (~ret.threw => \A k \in DOMAIN ret.value : ~Reducible(ret.value[k])))
    => Again(ret) = ret

C17_Witness ==
  /\ Done("cleanMetadata")
  /\ NoBinary(call.arg)
  /\ ~ret.threw
  /\ \A k \in DOMAIN ret.value : ~Reducible(ret.value[k])
  /\ HasCoordinate(call.arg)
  /\ {"Make", "GPSLatitudeRef"} \subseteq DOMAIN call.arg
  /\ HasField(call.arg["Make"], "description")
  /\ GpsKeys \cup {"Make"} \subseteq DOMAIN ret.value
  /\ Again(ret) = ret

\* a call of cleanMetadata or of processLocationCoordinates about to run
ReadsDictionary ==
  pc = "ready" /\ call.fn \in {"cleanMetadata", "processLocationCoordinates"}

ValueOf(rawData, key) == rawData[key].f["value"]

\* both GPS tags are envelopes whose `value` is an array
BothArrays(rawData) ==
  \A key \in {"GPSLatitude", "GPSLongitude"} :
    /\ key \in DOMAIN rawData
    /\ HasField(rawData[key], "value")
    /\ ValueOf(rawData, key).t = "array"

WrongLength(a) == Len(a.e) # 3

\* C19: if GPSLatitude.value or GPSLongitude.value is an array whose length
\* is not 3 while the other is an array, processLocationCoordinates returns
\* a non-null Coordinate in which the coordinate of the wrong-length array
\* is 0 (its decimal is 0 and the hemisphere correction leaves 0).
C19_WrongLengthIsZero ==
  (Done("processLocationCoordinates") /\ BothArrays(call.arg)
     /\ (WrongLength(ValueOf(call.arg, "GPSLatitude"))
           \/ WrongLength(ValueOf(call.arg, "GPSLongitude"))))
    => /\ ~ret.threw
       /\ ret.value.t = "object"
       /\ WrongLength(ValueOf(call.arg, "GPSLatitude"))
            => (ret.value.f["mapsUrl"].lat = Whole(0) /\ ret.value.f["latitude"] = Whole(0))
       /\ WrongLength(ValueOf(call.arg, "GPSLongitude"))
            => (ret.value.f["mapsUrl"].lon = Whole(0) /\ ret.value.f["longitude"] = Whole(0))

\* GPSLatitude and GPSLongitude are both present
BothPresent(rawData) == {"GPSLatitude", "GPSLongitude"} \subseteq DOMAIN rawData

\* C20: if GPSLatitude and GPSLongitude are both present but the `value`
\* field of either is not an array (missing, a primitive, or a non-array
\* object), processLocationCoordinates returns null without raising and
\* cleanMetadata emits no GPSCoordinates key.
C20_NotArrays ==
  /\ (Done("processLocationCoordinates")
        /\ BothPresent(call.arg) /\ ~BothArrays(call.arg))
       => (~ret.threw /\ ret.value = Null)
  /\ (Done("cleanMetadata") /\ "GPSCoordinates" \notin DOMAIN call.arg
        /\ BothPresent(call.arg) /\ ~BothArrays(call.arg))
       => (~ret.threw /\ "GPSCoordinates" \notin DOMAIN ret.value)

C20_Witness ==
  /\ Done("cleanMetadata")
  /\ BothPresent(call.arg)
  /\ call.arg["GPSLatitude"] = Obj([value |-> Whole(5)])
  /\ HasField(call.arg["GPSLongitude"], "description")
  /\ HasField(call.arg["GPSLongitude"], "value")
  /\ IsDMS(ValueOf(call.arg, "GPSLongitude"))
  /\ ~ret.threw
  /\ ret.value["GPSLatitude"] = Whole(5)
  /\ ret.value["GPSLongitude"] = Str(Degrees)
  /\ "GPSCoordinates" \notin DOMAIN ret.value

\* the characters of s from its first to its last non-blank one, in upper case
Canonical(s) ==
  LET inked == {i \in 1..Len(s) : s[i] \notin WhiteSpace}
  IN IF inked = {} THEN <<>>
     ELSE LET first == CHOOSE i \in inked : \A j \in inked : i <= j
              last == CHOOSE i \in inked : \A j \in inked : j <= i
          IN [i \in 1..(last - first + 1) |-> UpperChar(s[first + i - 1])]

\* the field of a reference tag that the claim selects: its description if
\* it has one (one that is not empty, null, 0 or undefined), otherwise its
\* value, otherwise the empty string
Selected(tag) ==
  IF tag.t = "object" /\ "description" \in DOMAIN tag.f /\ Truthy(tag.f["description"])
  THEN tag.f["description"]
  ELSE IF tag.t = "object" /\ "value" \in DOMAIN tag.f /\ Truthy(tag.f["value"])
       THEN tag.f["value"]
       ELSE Str(<<>>)

\* the reference string a dictionary's tag is compared as
Reference(rawData, key) == Canonical(toString(Selected(Lookup(rawData, key))))

\* C21: the reference of GPSLatitudeRef and of GPSLongitudeRef is the
\* envelope's description if it has one, otherwise its value, otherwise the
\* empty string, and it is compared trimmed and in upper case: the latitude
\* is negated exactly when that reference is "S" (" s " acts as "S"), and
\* the longitude is treated as western exactly when it starts with "W"
\* ("w" acts as "W"), the fallback applying exactly when it is empty.
C21_ReferenceExtraction ==
  Resolved =>
    LET latRef == Reference(call.arg, "GPSLatitudeRef")
        lonRef == Reference(call.arg, "GPSLongitudeRef")
        west == Len(lonRef) > 0 /\ lonRef[1] = "W"
        inWindow == LonDecimal.n > 0 /\ LonDecimal.n < 180 * LonDecimal.d
    IN /\ ret.value.f["mapsUrl"].lat
            = (IF latRef = <<"S">> THEN Frac(-AbsInt(LatDecimal.n), LatDecimal.d)
               ELSE LatDecimal)
       /\ ret.value.f["mapsUrl"].lon
            = (IF west \/ (lonRef = <<>> /\ inWindow)
               THEN Frac(-AbsInt(LonDecimal.n), LonDecimal.d)
               ELSE LonDecimal)

C21_Witness ==
  /\ Resolved
  /\ Lookup(call.arg, "GPSLatitudeRef") = Obj([value |-> Str(SpacedSouth)])
  /\ LatDecimal = Frac(91, 2)
  /\ ret.value.f["latitude"] = Frac(-91, 2)

\* C29: when the normalized longitude reference is non-empty and does not
\* start with "W" (e.g. "E"), the resolved longitude is the DMS decimal
\* unchanged, hence >= 0 for a DMS decimal >= 0: the negation for an empty
\* reference does not apply.
C29_EastUnchanged ==
  (Resolved /\ Len(LonRef) > 0 /\ LonRef[1] # "W") =>
    /\ ret.value.f["mapsUrl"].lon = LonDecimal
    /\ ret.value.f["longitude"] = Rounded(LonDecimal)
    /\ LonDecimal.n >= 0 => ret.value.f["longitude"].n >= 0

C29_Witness ==
  /\ Resolved
  /\ LonRef = <<"E">>
  /\ LonDecimal = Frac(91, 2)
  /\ ret.value.f["longitude"] = Frac(91, 2)
  /\ ret.value.f["mapsUrl"].lon = Frac(91, 2)

\* C30: the rawData that parseMetadata returns holds every tag entry of the
\* decoder except the one keyed base64, each value unchanged (binary views
\* included), and cleanedData is cleanMetadata of the same tag dictionary.
C30_ParseResults ==
  (Done("parseMetadata") /\ ~ret.threw) =>
    LET tags == call.arg.tags
    IN /\ call.arg.readable /\ call.arg.decodable
       /\ DOMAIN ret.value.rawData = DOMAIN tags \ {"base64"}
       /\ \A key \in DOMAIN ret.value.rawData : ret.value.rawData[key] = tags[key]
       /\ ret.value.cleanedData = cleanMetadata(tags).value
       /\ DOMAIN ret.value.cleanedData \subseteq DOMAIN ret.value.rawData \cup GpsKeys

C30_Witness ==
  /\ Done("parseMetadata")
  /\ ~ret.threw
  /\ {"base64", "Make", "Model"} \subseteq DOMAIN call.arg.tags
  /\ IsView(call.arg.tags["Model"])
  /\ IsView(ret.value.rawData["Model"])
  /\ "base64" \notin DOMAIN ret.value.rawData
  /\ "Model" \notin DOMAIN ret.value.cleanedData
  /\ "Make" \in DOMAIN ret.value.cleanedData

\* C22: at no point does an unrevoked object URL exist other than the
\* current imageUrl: every URL that handleFileUpload created is revoked once
\* it is cleared or replaced by a later upload.
C22_OnlyCurrentUrlLive == \A url \in live : url = app.imageUrl

\* the promises of parseMetadata that a step settles
Settling == pending \ pending'

\* C23: a rejection of parseMetadata during handleFileUpload is caught: the
\* step that settles it leaves a non-empty error message and no exception
\* leaves handleFileUpload; the next upload starts with error empty.
C23_FailureIsCaught ==
  [][/\ ~unhandled'
     /\ \A p \in Settling :
          parseMetadata(p.file).threw => app'.error # EmptyString
     /\ created' > created => app'.error = EmptyString]_vars

C23_Witness ==
  /\ app.error = FailureMessage
  /\ app.fileName = "c.png"
  /\ pending = {}
  /\ ~unhandled
  /\ created = 1

\* C24: a parse in flight keeps isLoading true only until it settles:
\* isLoading true always leads to isLoading false, whether parseMetadata
\* resolves or rejects, and isLoading is false whenever no parse is in
\* flight.
C24_LoadingEnds ==
  /\ [](pending = {} => ~app.isLoading)
  /\ (app.isLoading ~> ~app.isLoading)

C24_Witness ==
  /\ created = 2
  /\ pending = {}
  /\ ~app.isLoading
  /\ app.error = FailureMessage
  /\ hasData(app)

\* C25: immediately after clearData the state of App is the initial one:
\* metadataData and cleanedData null, fileName, imageUrl and error empty,
\* isLoading false and showUploader true.
C25_ClearResets == [][clearData => app' = InitialApp]_vars

\* C26: at most one parseMetadata call is in flight at any time, and while
\* one is in flight isLoading is true (the file input is disabled).
C26_OneParseInFlight ==
  /\ Cardinality(pending) <= 1
  /\ pending # {} => (app.isLoading /\ ~InputEnabled(app))

C26_Witness ==
  /\ Cardinality(pending) = 1
  /\ created = 2
  /\ app.fileName = EmptyString
  /\ app.showUploader
  /\ app.isLoading

\* the file that the displayed name designates
Named(name) == {file \in AppFiles : file.name = name}

\* C27: whenever metadata is displayed together with a file name and a
\* preview, the metadata is what parseMetadata made of the file that
\* fileName names.
C27_MetadataOfNamedFile ==
  (hasData(app) /\ hasImage(app)) =>
    \E file \in Named(app.fileName) :
      /\ ~parseMetadata(file).threw
      /\ app.metadataData = parseMetadata(file).value.rawData
      /\ app.cleanedData = parseMetadata(file).value.cleanedData

\* C28: once clearData has run, and until a new file is uploaded (which
\* names it), metadataData and cleanedData stay null and showUploader stays
\* true, also when a parse that was in flight settles afterwards.
C28_ClearedStaysCleared ==
  (created > 0 /\ app.fileName = EmptyString) =>
    /\ app.metadataData = Null
    /\ app.cleanedData = Null
    /\ app.showUploader

====
